---- MODULE Spec2Model ----
(***************************************************************************)
(* The particle-swarm optimizer driver of src/mso/optimizer.py:            *)
(* BasePSOptimizer (sequential run), ParallelSwarmOptimizer (batched run)  *)
(* and MPPSOOptimizer (process-pool run), with the score cache, the        *)
(* best-solutions table and the best-fitness history they maintain.        *)
(*                                                                         *)
(* A SMILES string is a sequence of one-character strings, a position in   *)
(* the embedding space is a small natural number, and a fitness (a float   *)
(* in the code) is an exact fraction <<numerator, denominator>>; the       *)
(* weights used have sums that are powers of two, so the fractions are     *)
(* the values the floating-point division produces.                        *)
(***************************************************************************)
EXTENDS Integers, Sequences, FiniteSets, TLC

\* ------------------------------------------------------------------ bounds
NumSwarms == 2
NumPart == 2
MaxSteps == 2
MaxTrack == 2
MaxScore == 2
MaxIterations == 1

VARIABLES
    opt,        \* the optimizer instance (self): swarms, caches, tables
    twin,       \* a companion value of opt that a comparison needs: a second
                \* instance run with the batched strategy (SpecEquiv), opt as
                \* it was when a call began (SpecRaise), the positions drawn by
                \* next_step (SpecStep), the fitness list of the caller
                \* (SpecManual), the artifacts as the last completed step
                \* wrote them (SpecCrash), the best-solutions table before
                \* the last update (SpecTable); <<>> where none is kept
    strategy,   \* "seq" | "bat" | "mp": which class's run() is executing
    ctor,       \* how the instance was built
    pc,         \* position of run() (or of the caller before run())
    step,       \* the loop variable of run()
    idx,        \* the index of the swarm the current for-loop is at
    num_track,  \* run()'s num_track argument
    tasks,      \* process-pool run: per swarm, the task's state and result
    saved,      \* the artifacts in out_dir
    ghost       \* history variables: what has happened so far

vars == <<opt, twin, strategy, ctor, pc, step, idx, num_track, tasks, saved, ghost>>

\* ------------------------------------------------------------- small helpers
Range(s) == {s[k] : k \in DOMAIN s}

Min2(a, b) == IF a < b THEN a ELSE b

Max2(a, b) == IF a > b THEN a ELSE b

\* Python's seq[a:b] for 0 <= a, on a sequence indexed from 1
Slice(s, a, b) ==
    LET lo == Min2(a, Len(s))
        hi == Min2(b, Len(s))
    IN  IF hi <= lo THEN <<>> ELSE SubSeq(s, lo + 1, hi)

RECURSIVE Flatten(_)
\* [e for s in seqs for e in s]; np.concatenate
Flatten(seqs) ==
    IF seqs = <<>> THEN <<>> ELSE Head(seqs) \o Flatten(Tail(seqs))

\* ------------------------------------------------------------------ fitness
\* a float as a fraction; a zero denominator is what numpy's division by zero
\* gives: nan for 0/0, inf for x/0 with x > 0
IsNaN(f) == f[2] = 0 /\ f[1] = 0

FitEq(a, b) == ~IsNaN(a) /\ ~IsNaN(b) /\ a[1] * b[2] = b[1] * a[2]

FitGt(a, b) == ~IsNaN(a) /\ ~IsNaN(b) /\ a[1] * b[2] > b[1] * a[2]

FitGe(a, b) == FitGt(a, b) \/ FitEq(a, b)

FitAdd(a, b) == <<a[1] * b[2] + b[1] * a[2], a[2] * b[2]>>

One == <<1, 1>>

\* below every fitness a scoring configuration can produce
MinFitness == <<-1, 1>>

\* --------------------------------------------------- external collaborators
\* mso.util.canonicalize_smiles: a deterministic, idempotent normalisation
\* (here: the atoms of a two-atom string in a fixed order)
AtomRank(c) == CASE c = "C" -> 1 [] c = "N" -> 2 [] OTHER -> 3

canonicalize_smiles(s) ==
    IF Len(s) = 2 /\ AtomRank(s[1]) > AtomRank(s[2]) THEN <<s[2], s[1]>> ELSE s

\* the embedding model: vector -> sequence is lossy and may give a string
\* that is not canonical; sequence -> vector is not its inverse
DecodeTable == << <<"C">>, <<"C", "O">>, <<"O", "C">>, <<"N">> >>

Positions == 0 .. (Len(DecodeTable) - 1)

emb_to_seq(x) == DecodeTable[x + 1]

seq_to_emb(s) ==
    CASE s = <<"C">> -> 0
      [] canonicalize_smiles(s) = <<"C", "O">> -> 1
      [] OTHER -> 3

Strings == Range(DecodeTable)

CanonMols == {canonicalize_smiles(s) : s \in Strings}

NoSmiles == <<>>

\* a scoring function descriptor: name, weight, is_mol_func and, as `tab`, the
\* scaled score it gives each input (a deterministic function of the input);
\* a call on a batch that holds an input of raises_on raises
RaisingFunction(name, weight, is_mol_func, tab, raises_on) ==
    [name |-> name, weight |-> weight, is_mol_func |-> is_mol_func, tab |-> tab,
     raises_on |-> raises_on]

\* a scoring function that raises on no input
ScoringFunction(name, weight, is_mol_func, tab) ==
    RaisingFunction(name, weight, is_mol_func, tab, {})

\* scoring_function(inputs): the four outputs for one input
Call(sf, key) ==
    [unscaled |-> <<"u", sf.name, sf.tab[key]>>,
     scaled |-> sf.tab[key],
     desirability |-> <<"d", sf.name, sf.tab[key]>>,
     residue |-> <<"r", sf.name>>]

\* np.argmax: the first index of the maximum, the first nan if there is one
ArgMax(f) ==
    IF \E p \in DOMAIN f : IsNaN(f[p])
    THEN CHOOSE p \in DOMAIN f : IsNaN(f[p]) /\ \A q \in 1 .. (p - 1) : ~IsNaN(f[q])
    ELSE CHOOSE p \in DOMAIN f :
            /\ \A q \in DOMAIN f : FitGe(f[p], f[q])
            /\ \A q \in 1 .. (p - 1) : ~FitEq(f[q], f[p])

\* mso.swarm.Swarm as this module uses it
Swarm(smiles, x) ==
    [smiles |-> smiles, x |-> x, fitness |-> <<>>,
     swarm_best_fitness |-> MinFitness, best_smiles |-> NoSmiles,
     unscaled_scores |-> <<>>, scaled_scores |-> <<>>, desirability_scores |-> <<>>]

\* Swarm.update_fitness(fitness): the fitness and the swarm's best so far
Swarm_update_fitness(sw, fitness) ==
    LET best_idx == ArgMax(fitness)
        better == FitGt(fitness[best_idx], sw.swarm_best_fitness)
    IN  [sw EXCEPT !.fitness = fitness,
                   !.swarm_best_fitness = IF better THEN fitness[best_idx] ELSE @,
                   !.best_smiles = IF better THEN sw.smiles[best_idx] ELSE @]

\* Swarm.next_step(): the positions move; where to is the draw newx
Swarm_next_step(sw, newx) == [sw EXCEPT !.x = newx]

\* ------------------------------------------------- BasePSOptimizer.__init__
Optimizer(swarms, scoring_functions, init_smiles_set) ==
    [swarms |-> swarms,
     scoring_functions |-> scoring_functions,
     best_solutions |-> <<>>,
     best_fitness_history |-> <<>>,
     smi_to_unscaled_scores |-> <<>>,
     smi_to_scaled_scores |-> <<>>,
     smi_to_desirability_scores |-> <<>>,
     smi_to_residues |-> <<>>,
     init_smiles_set |-> {canonicalize_smiles(smi) : smi \in init_smiles_set},
     \* not fields of the class: which exception the last call raised, the
     \* first entry written to the cache for each molecule, and how often each
     \* scoring function was given each molecule
     raised |-> "none",
     first_written |-> <<>>,
     calls |-> [f \in {scoring_functions[k].name : k \in DOMAIN scoring_functions}
                    |-> [m \in CanonMols |-> 0]]]

\* ------------------------------------------- BasePSOptimizer.update_fitness
\* a mutant of uniq_smis: the cache is not consulted
uniq_smis_all(o, smiles) == Range(smiles)

\* line 76: the molecules of the swarm that are not in the cache
uniq_smis(o, smiles) ==
    {smi \in Range(smiles) : smi \notin DOMAIN o.smi_to_unscaled_scores}

\* lines 80-87: call a molecule-based function on the new molecules and store
\* what it returns under each molecule (an assignment: it replaces an entry)
RecordScores(o, sf, uniq) ==
    [o EXCEPT
        !.smi_to_unscaled_scores = [m \in uniq |-> Call(sf, m).unscaled] @@ @,
        !.smi_to_scaled_scores = [m \in uniq |-> Call(sf, m).scaled] @@ @,
        !.smi_to_desirability_scores = [m \in uniq |-> Call(sf, m).desirability] @@ @,
        !.smi_to_residues = [m \in uniq |-> Call(sf, m).residue] @@ @,
        !.first_written = @ @@ [m \in uniq |-> Call(sf, m)],
        !.calls[sf.name] = [m \in CanonMols |-> IF m \in uniq THEN @[m] + 1 ELSE @[m]]]

\* lines 89-93: the per-particle score vectors of one scoring function
ScoreVectors(o, sw, sf) ==
    IF sf.is_mol_func
    THEN [unscaled |-> [p \in DOMAIN sw.smiles |-> o.smi_to_unscaled_scores[sw.smiles[p]]],
          scaled |-> [p \in DOMAIN sw.smiles |-> o.smi_to_scaled_scores[sw.smiles[p]]],
          desirability |->
              [p \in DOMAIN sw.smiles |-> o.smi_to_desirability_scores[sw.smiles[p]]]]
    ELSE [unscaled |-> [p \in DOMAIN sw.x |-> Call(sf, sw.x[p]).unscaled],
          scaled |-> [p \in DOMAIN sw.x |-> Call(sf, sw.x[p]).scaled],
          desirability |-> [p \in DOMAIN sw.x |-> Call(sf, sw.x[p]).desirability]]

\* a mutant of Accumulate: the scaled score is multiplied by the weight
AccumulateWeighted(acc, scaled, sf) ==
    [fitness |-> [p \in DOMAIN scaled |-> acc.fitness[p] + scaled[p] * sf.weight],
     weight_sum |-> acc.weight_sum + sf.weight]

\* lines 98-99: fitness += scaled_scores; weight_sum += scoring_function.weight
Accumulate(acc, scaled, sf) ==
    [fitness |-> [p \in DOMAIN scaled |-> acc.fitness[p] + scaled[p]],
     weight_sum |-> acc.weight_sum + sf.weight]

\* lines 80 and 93: the batch scoring function sf is called on
Batch(sw, sf, uniq) == IF sf.is_mol_func THEN uniq ELSE Range(sw.x)

RECURSIVE ScoreLoop(_, _, _, _, _)
\* lines 78-99: the loop over scoring_functions[k ..]; an exception of a
\* scoring function ends it, with everything written so far left in place
ScoreLoop(o, i, uniq, k, acc) ==
    IF k > Len(o.scoring_functions) THEN [o |-> o, acc |-> acc]
    ELSE IF Batch(o.swarms[i], o.scoring_functions[k], uniq)
                \cap o.scoring_functions[k].raises_on # {}
    THEN [o |-> [o EXCEPT !.raised = "ScoringError"], acc |-> acc]
    ELSE
        LET sf == o.scoring_functions[k]
            o1 == IF sf.is_mol_func THEN RecordScores(o, sf, uniq) ELSE o
            v == ScoreVectors(o1, o1.swarms[i], sf)
            o2 == [o1 EXCEPT
                    !.swarms[i].unscaled_scores = (sf.name :> v.unscaled) @@ @,
                    !.swarms[i].scaled_scores = (sf.name :> v.scaled) @@ @,
                    !.swarms[i].desirability_scores = (sf.name :> v.desirability) @@ @]
        IN  ScoreLoop(o2, i, uniq, k + 1, Accumulate(acc, v.scaled, sf))

\* lines 62-102, on self.swarms[i]
update_fitness(o, i) ==
    LET smiles == [p \in DOMAIN o.swarms[i].smiles |->
                      canonicalize_smiles(o.swarms[i].smiles[p])]
        o0 == [o EXCEPT !.swarms[i].smiles = smiles]
        uniq == uniq_smis(o0, smiles)
        zero == [fitness |-> [p \in DOMAIN smiles |-> 0], weight_sum |-> 0]
        r == ScoreLoop(o0, i, uniq, 1, zero)
        fitness == [p \in DOMAIN smiles |-> <<r.acc.fitness[p], r.acc.weight_sum>>]
    IN  IF o.scoring_functions = <<>>
        THEN \* fitness and weight_sum are still the ints 0: 0 / 0 raises
             [o0 EXCEPT !.raised = "ZeroDivisionError"]
        ELSE IF r.o.raised # "none"
        THEN \* the exception of the scoring function leaves update_fitness
             r.o
        ELSE [r.o EXCEPT !.swarms[i] = Swarm_update_fitness(@, fitness)]

\* ---------------------------------- BasePSOptimizer._next_step_and_evaluate
\* a mutant of next_step_and_decode: the decoded strings are not encoded
\* again, the positions stay where next_step put them
next_step_and_decode_only(o, i, newx) ==
    LET sw1 == Swarm_next_step(o.swarms[i], newx)
    IN  [o EXCEPT !.swarms[i] = [sw1 EXCEPT
            !.smiles = [p \in DOMAIN sw1.x |-> emb_to_seq(sw1.x[p])]]]

\* lines 111-114, on self.swarms[i], with newx the positions next_step draws:
\* the swarm moves, its positions are decoded and the strings encoded again
next_step_and_decode(o, i, newx) ==
    LET sw1 == Swarm_next_step(o.swarms[i], newx)
        smiles == [p \in DOMAIN sw1.x |-> emb_to_seq(sw1.x[p])]
        sw2 == [sw1 EXCEPT !.smiles = smiles,
                           !.x = [p \in DOMAIN smiles |-> seq_to_emb(smiles[p])]]
    IN  [o EXCEPT !.swarms[i] = sw2]

\* lines 104-116
next_step_and_evaluate(o, i, newx) == update_fitness(next_step_and_decode(o, i, newx), i)

\* ----------------------------------- BasePSOptimizer._update_best_solutions
\* the rows of a dataframe are a sequence of records
RECURSIVE drop_duplicates(_, _)
\* DataFrame.drop_duplicates("smiles"): the first row of each molecule is kept;
\* seen is the set of molecules of the rows already kept
drop_duplicates(rows, seen) ==
    IF rows = <<>> THEN <<>>
    ELSE IF Head(rows).smiles \in seen
         THEN drop_duplicates(Tail(rows), seen)
         ELSE <<Head(rows)>> \o drop_duplicates(Tail(rows), seen \cup {Head(rows).smiles})

\* row r goes before row s of a table sorted by descending fitness, nan last
Before(r, s) == ~IsNaN(r.fitness) /\ (IsNaN(s.fitness) \/ FitGt(r.fitness, s.fitness))

RECURSIVE InsertRow(_, _)
InsertRow(sorted, r) ==
    IF sorted = <<>> THEN <<r>>
    ELSE IF Before(r, Head(sorted))
         THEN <<r>> \o sorted
         ELSE <<Head(sorted)>> \o InsertRow(Tail(sorted), r)

RECURSIVE SortFrom(_, _)
SortFrom(rows, sorted) ==
    IF rows = <<>> THEN sorted ELSE SortFrom(Tail(rows), InsertRow(sorted, Head(rows)))

\* a mutant of sort_values: the rows stay in the order of the merge
sort_values_none(rows) == rows

\* DataFrame.sort_values("fitness", ascending=False): rows of equal fitness
\* keep their order
sort_values(rows) == SortFrom(rows, <<>>)

\* DataFrame.iloc[:num_track]
iloc(rows, n) == Slice(rows, 0, n)

RECURSIVE FitSum(_)
FitSum(rows) ==
    IF rows = <<>> THEN <<0, 1>> ELSE FitAdd(Head(rows).fitness, FitSum(Tail(rows)))

\* Series.mean(): nan for an empty table
FitMean(rows) == <<FitSum(rows)[1], FitSum(rows)[2] * Len(rows)>>

\* lines 138-141: max, min and mean of the fitness column (nan when empty)
Stats(rows) ==
    IF rows = <<>> THEN [max |-> <<0, 0>>, min |-> <<0, 0>>, mean |-> <<0, 0>>]
    ELSE [max |-> (CHOOSE r \in Range(rows) :
                      \A s \in Range(rows) : FitGe(r.fitness, s.fitness)).fitness,
          min |-> (CHOOSE r \in Range(rows) :
                      \A s \in Range(rows) : FitGe(s.fitness, r.fitness)).fitness,
          mean |-> FitMean(rows)]

\* lines 125-128: one row per particle of every swarm
ParticleRows(o) ==
    Flatten([i \in DOMAIN o.swarms |->
        [p \in DOMAIN o.swarms[i].smiles |->
            [smiles |-> o.swarms[i].smiles[p],
             fitness |-> o.swarms[i].fitness[p],
             residues |-> o.smi_to_residues[o.swarms[i].smiles[p]]]]])

\* line 131: the rows whose molecule is not in init_smiles_set
NotInitSmiles(o, rows) == SelectSeq(rows, LAMBDA r : r.smiles \notin o.init_smiles_set)

\* a mutant of update_best_solutions: the table is built from the current
\* population alone, the rows it held are not merged in
update_best_solutions_replace(o, n) ==
    IF \E i \in DOMAIN o.swarms :
          \E p \in DOMAIN o.swarms[i].smiles :
              o.swarms[i].smiles[p] \notin DOMAIN o.smi_to_residues
    THEN [o EXCEPT !.raised = "KeyError"]
    ELSE LET new_df == NotInitSmiles(o, ParticleRows(o))
         IN  [o EXCEPT !.best_solutions = iloc(sort_values(drop_duplicates(new_df, {})), n)]

\* lines 118-141; a molecule of a particle that is not in smi_to_residues
\* raises KeyError at line 128, before the table is touched
update_best_solutions(o, n) ==
    IF \E i \in DOMAIN o.swarms :
          \E p \in DOMAIN o.swarms[i].smiles :
              o.swarms[i].smiles[p] \notin DOMAIN o.smi_to_residues
    THEN [o EXCEPT !.raised = "KeyError"]
    ELSE LET new_df == NotInitSmiles(o, ParticleRows(o))
             merged == drop_duplicates(o.best_solutions \o new_df, {})
         IN  [o EXCEPT !.best_solutions = iloc(sort_values(merged), n)]

\* ----------------------------- BasePSOptimizer._update_best_fitness_history
\* lines 149-154: one row per swarm
HistoryRows(o, s) ==
    [i \in DOMAIN o.swarms |->
        [step |-> s, swarm |-> i - 1,
         fitness |-> o.swarms[i].swarm_best_fitness,
         smiles |-> o.swarms[i].best_smiles,
         residues |-> o.smi_to_residues[o.swarms[i].best_smiles]]]

\* a mutant of update_best_fitness_history: swarms whose best molecule is the
\* same share one row
update_best_fitness_history_dedup(o, s) ==
    IF \E i \in DOMAIN o.swarms : o.swarms[i].best_smiles \notin DOMAIN o.smi_to_residues
    THEN [o EXCEPT !.raised = "KeyError"]
    ELSE [o EXCEPT !.best_fitness_history = @ \o drop_duplicates(HistoryRows(o, s), {})]

\* lines 143-156; KeyError at line 152 for a best molecule that is not cached
update_best_fitness_history(o, s) ==
    IF \E i \in DOMAIN o.swarms : o.swarms[i].best_smiles \notin DOMAIN o.smi_to_residues
    THEN [o EXCEPT !.raised = "KeyError"]
    ELSE [o EXCEPT !.best_fitness_history = @ \o HistoryRows(o, s)]

\* ---------------- ParallelSwarmOptimizer._next_step_and_evaluate (326-344)
\* a mutant of BatchSlice: the offset of the swarm is left out
BatchSliceFirst(batch, i, num_part) == Slice(batch, 0, num_part)

\* lines 342-343: batch[i*num_part: (i+1)*num_part] for the swarm at index
\* i - 1 of self.swarms
BatchSlice(batch, i, num_part) == Slice(batch, (i - 1) * num_part, i * num_part)

RECURSIVE SliceAndScore(_, _, _, _, _)
\* lines 341-344: swarm i takes its slice of the batch and is scored
SliceAndScore(o, i, smiles, x, num_part) ==
    IF i > Len(o.swarms) \/ o.raised # "none" THEN o
    ELSE LET o1 == [o EXCEPT
                     !.swarms[i].smiles = BatchSlice(smiles, i, num_part),
                     !.swarms[i].x = BatchSlice(x, i, num_part)]
         IN  SliceAndScore(update_fitness(o1, i), i + 1, smiles, x, num_part)

\* newx[i] are the positions next_step draws for swarm i
Parallel_next_step_and_evaluate(o, newx) ==
    LET num_part == Len(o.swarms[1].x)
        moved == [i \in DOMAIN o.swarms |-> Swarm_next_step(o.swarms[i], newx[i])]
        emb == Flatten([i \in DOMAIN moved |-> moved[i].x])
        smiles == [k \in DOMAIN emb |-> emb_to_seq(emb[k])]
        x == [k \in DOMAIN smiles |-> seq_to_emb(smiles[k])]
    IN  SliceAndScore([o EXCEPT !.swarms = moved], 1, smiles, x, num_part)

\* a mutant of EarlyStop: the loop breaks only above 1.0
EarlyStopAbove(o, n) == FitGt(FitMean(Slice(o.best_solutions, 0, n)), One)

\* ------------------------------------------------ MPPSOOptimizer.run (412-415)
\* the loop breaks when the mean fitness of the first num_track rows is 1.0
EarlyStop(o, n) == FitEq(FitMean(Slice(o.best_solutions, 0, n)), One)

\* ------------------------------------------------------------ configurations
\* run()'s num_steps argument
num_steps == MaxSteps

SwarmIds == 1 .. NumSwarms

Particles == 1 .. NumPart

\* three scoring functions: two on molecules, one on embeddings
F1 == ScoringFunction("f1", 1, TRUE,
        [m \in CanonMols |-> IF m = <<"C">> THEN 0 ELSE 1])

F2 == ScoringFunction("f2", 3, TRUE,
        [m \in CanonMols |-> CASE m = <<"C">> -> 1 [] m = <<"C", "O">> -> 3 [] OTHER -> 0])

G == ScoringFunction("g", 1, FALSE, [x \in Positions |-> x % 2])

\* the scoring_functions lists of the runs checked
Configs == {<<F1>>, <<F1, F2>>, <<F1, G>>, <<G>>}

\* the seeds: one string, a list to draw particles from, one string per swarm
SeedStrings == {<<"C", "O">>, <<"N">>}

MultiSeeds == << <<"O", "C">>, <<"N">> >>

SeedList == [i \in SwarmIds |-> IF i % 2 = 1 THEN <<"O", "C">> ELSE <<"N">>]

\* Python's set(init_smiles): of a str its characters, of a list its elements
PySet(init_smiles, is_str) ==
    IF is_str THEN {<<init_smiles[k]>> : k \in DOMAIN init_smiles}
    ELSE Range(init_smiles)

\* Swarm.from_query with one string: every particle at the seed
SwarmAt(sml) == Swarm([p \in Particles |-> sml], [p \in Particles |-> seq_to_emb(sml)])

\* Swarm.from_query with a list: pick[p] is the seed drawn for particle p
SwarmDrawn(smls, pick) ==
    Swarm([p \in Particles |-> smls[pick[p]]],
          [p \in Particles |-> seq_to_emb(smls[pick[p]])])

\* lines 197-242, init_smiles a str
from_query(init_smiles, scoring_functions) ==
    Optimizer([i \in SwarmIds |-> SwarmAt(init_smiles)], scoring_functions,
              PySet(init_smiles, TRUE))

\* lines 197-242, init_smiles a list; picks[i][p] is the draw for a particle
from_query_multi(init_smiles, picks, scoring_functions) ==
    Optimizer([i \in SwarmIds |-> SwarmDrawn(init_smiles, picks[i])], scoring_functions,
              PySet(init_smiles, FALSE))

\* lines 244-292
from_query_list(init_smiles, scoring_functions) ==
    Optimizer([i \in SwarmIds |-> SwarmAt(init_smiles[i])], scoring_functions,
              PySet(init_smiles, FALSE))

\* lines 294-318: the swarms are restored from dictionaries and no
\* init_smiles_set is passed
from_swarm_dicts(swarms, scoring_functions) == Optimizer(swarms, scoring_functions, {})

\* lines 373-385: MPPSOOptimizer.__init__ passes no init_smiles_set on
MPPSOOptimizer(swarms, scoring_functions) == Optimizer(swarms, scoring_functions, {})

\* the instances a run can start from, by constructor
Instances(c, cfg) ==
    CASE c = "from_query" -> {from_query(s, cfg) : s \in SeedStrings}
      [] c = "from_query_multi" ->
            {from_query_multi(MultiSeeds, picks, cfg) :
                picks \in [SwarmIds -> [Particles -> DOMAIN MultiSeeds]]}
      [] c = "from_query_list" -> {from_query_list(SeedList, cfg)}
      [] c = "from_swarm_dicts" ->
            {from_swarm_dicts([i \in SwarmIds |-> SwarmAt(SeedList[i])], cfg)}
      [] OTHER -> {MPPSOOptimizer([i \in SwarmIds |-> SwarmAt(SeedList[i])], cfg)}

\* the constructors tried per strategy (drawing the particles from a list is
\* tried with the sequential run)
Ctors(st) ==
    CASE st = "mp" -> {"init"}
      [] st = "seq" ->
            {"from_query", "from_query_multi", "from_query_list", "from_swarm_dicts"}
      [] OTHER -> {"from_query", "from_query_list", "from_swarm_dicts"}

\* the canonical molecules the particles start at
SeedsOf(o) ==
    {canonicalize_smiles(o.swarms[i].smiles[p]) : i \in DOMAIN o.swarms, p \in Particles}

NoStats == [max |-> <<0, 0>>, min |-> <<0, 0>>, mean |-> <<0, 0>>]

Ghost0(o) ==
    [seeds |-> SeedsOf(o), evaluated |-> {}, stepped |-> {}, hist_calls |-> 0,
     stats |-> NoStats]

\* out_dir before run(): whether it exists; the files' contents; `open` is the
\* set of files a write has opened (truncated) and not yet completed
NothingSaved(exists) ==
    [exists |-> exists, best_solutions |-> <<>>, best_fitness_history |-> <<>>,
     smi_to_unscaled_scores |-> <<>>, epoch_stats |-> <<>>, writes |-> 0, open |-> {}]

InitWith(cfgs, strategies, ctors) ==
    /\ strategy \in strategies
    /\ ctor \in Ctors(strategy) \cap ctors
    /\ \E cfg \in cfgs : opt \in Instances(ctor, cfg)
    /\ twin = <<>>
    /\ pc = IF strategy = "mp" THEN "idle" ELSE "start"
    /\ step = 0
    /\ idx = 1
    /\ num_track \in 1 .. MaxTrack
    /\ tasks = <<>>
    /\ \E exists \in (IF strategy = "seq" THEN BOOLEAN ELSE {FALSE}) :
          saved = NothingSaved(exists)
    /\ ghost = Ghost0(opt)

AllCtors == {"from_query", "from_query_multi", "from_query_list", "from_swarm_dicts", "init"}

Init == InitWith(Configs, {"seq", "bat", "mp"}, AllCtors)

\* ------------------------------------------------------------------- run()
\* where the loop goes at `for step in range(num_steps)` with step = s
LoopHead(s) ==
    IF s >= num_steps THEN "done"
    ELSE IF strategy = "mp" THEN "dispatch" ELSE "hist"

\* the position after a call that returned o
After(o, next) == IF o.raised # "none" THEN "raised" ELSE next

\* a mutant of Run_start: run() starts moving the swarms at once, the initial
\* evaluation and the first bookkeeping left out
Run_start_no_eval ==
    /\ pc = "start"
    /\ pc' = "advance"
    /\ UNCHANGED <<opt, twin, strategy, ctor, step, idx, num_track, tasks, saved, ghost>>

\* line 165 (sequential run: out_dir.mkdir(exist_ok=False)); the batched run
\* starts at line 354
Run_start ==
    /\ pc = "start"
    /\ \/ /\ strategy = "seq" /\ saved.exists
          /\ pc' = "raised"
          /\ opt' = [opt EXCEPT !.raised = "FileExistsError"]
       \/ /\ ~(strategy = "seq" /\ saved.exists)
          /\ pc' = "init_eval"
          /\ opt' = opt
    /\ UNCHANGED <<twin, strategy, ctor, step, idx, num_track, tasks, saved, ghost>>

\* lines 168-169 and 354-355: one iteration of `for swarm in self.swarms`
Init_eval ==
    /\ pc = "init_eval"
    /\ opt' = update_fitness(opt, idx)
    /\ pc' = After(opt', IF idx = NumSwarms THEN LoopHead(0) ELSE "init_eval")
    /\ idx' = IF idx = NumSwarms THEN 1 ELSE idx + 1
    /\ ghost' = [ghost EXCEPT !.evaluated =
                    IF opt'.raised = "none" /\ idx \notin ghost.stepped
                    THEN @ \cup {idx} ELSE @]
    /\ UNCHANGED <<twin, strategy, ctor, step, num_track, tasks, saved>>

\* lines 174, 357 and 409: self._update_best_fitness_history(step)
Update_history ==
    /\ pc = "hist"
    /\ opt' = update_best_fitness_history(opt, step)
    /\ pc' = After(opt', IF strategy = "mp" THEN "check" ELSE "best")
    /\ ghost' = [ghost EXCEPT !.hist_calls = IF opt'.raised = "none" THEN @ + 1 ELSE @]
    /\ UNCHANGED <<twin, strategy, ctor, step, idx, num_track, tasks, saved>>

\* lines 175-178, 358-360 and 408: self._update_best_solutions(num_track); the
\* sequential run writes the statistics to epoch_stats.txt
Update_best ==
    /\ pc = "best"
    /\ opt' = update_best_solutions(opt, num_track)
    /\ pc' = After(opt', IF strategy = "mp" THEN "hist" ELSE "advance")
    /\ ghost' = [ghost EXCEPT !.stats =
                    IF opt'.raised = "none" THEN Stats(opt'.best_solutions) ELSE @]
    /\ saved' = IF strategy = "seq" /\ opt'.raised = "none"
                THEN [saved EXCEPT !.epoch_stats =
                        Append(@, [step |-> step, stats |-> Stats(opt'.best_solutions)])]
                ELSE saved
    /\ UNCHANGED <<twin, strategy, ctor, step, idx, num_track, tasks>>

\* lines 180-181: one iteration of `for swarm in self.swarms`
Advance ==
    /\ pc = "advance"
    /\ strategy = "seq"
    /\ \E newx \in [Particles -> Positions] :
          opt' = next_step_and_evaluate(opt, idx, newx)
    /\ pc' = After(opt', IF idx = NumSwarms THEN "save" ELSE "advance")
    /\ idx' = IF idx = NumSwarms THEN 1 ELSE idx + 1
    /\ ghost' = [ghost EXCEPT !.stepped = @ \cup {idx}]
    /\ UNCHANGED <<twin, strategy, ctor, step, num_track, tasks, saved>>

\* lines 184-194: the artifacts of the step are written
Save ==
    /\ pc = "save"
    /\ saved' = [saved EXCEPT
                    !.best_solutions = opt.best_solutions,
                    !.best_fitness_history = opt.best_fitness_history,
                    !.smi_to_unscaled_scores = opt.smi_to_unscaled_scores,
                    !.writes = @ + 1]
    /\ step' = step + 1
    /\ pc' = LoopHead(step + 1)
    /\ UNCHANGED <<opt, twin, strategy, ctor, idx, num_track, tasks, ghost>>

\* line 361: the batched step of all swarms
Advance_all ==
    /\ pc = "advance"
    /\ strategy = "bat"
    /\ \E newx \in [SwarmIds -> [Particles -> Positions]] :
          opt' = Parallel_next_step_and_evaluate(opt, newx)
    /\ step' = step + 1
    /\ pc' = After(opt', LoopHead(step + 1))
    /\ ghost' = [ghost EXCEPT !.stepped = SwarmIds]
    /\ UNCHANGED <<twin, strategy, ctor, idx, num_track, tasks, saved>>

\* ------------------------------------------------------------ MPPSOOptimizer
\* what a pool worker unpickles for a task on swarm sw: the optimizer without
\* its swarms (__getstate__, lines 320-322), and the swarm as the argument.
\* What the task writes to this copy stays in the worker.
WorkerCopy(o, sw) == [o EXCEPT !.swarms = <<sw>>]

RECURSIVE EvaluateFrom(_, _)
\* `for swarm in self.swarms: self.update_fitness(swarm)` from swarm i on
EvaluateFrom(o, i) ==
    IF i > Len(o.swarms) \/ o.raised # "none" THEN o
    ELSE EvaluateFrom(update_fitness(o, i), i + 1)

\* lines 387-391: evaluate_query(), called before run()
Evaluate_query ==
    /\ pc = "idle"
    /\ opt' = [opt EXCEPT !.swarms =
                [i \in SwarmIds |-> update_fitness(WorkerCopy(opt, opt.swarms[i]), 1).swarms[1]]]
    /\ pc' = "ready"
    /\ ghost' = [ghost EXCEPT !.evaluated = SwarmIds]
    /\ UNCHANGED <<twin, strategy, ctor, step, idx, num_track, tasks, saved>>

\* the caller evaluates the starting positions in its own process, as the
\* other two run() methods do
Caller_evaluate ==
    /\ pc = "idle"
    /\ opt' = EvaluateFrom(opt, 1)
    /\ pc' = "ready"
    /\ ghost' = [ghost EXCEPT !.evaluated = SwarmIds]
    /\ UNCHANGED <<twin, strategy, ctor, step, idx, num_track, tasks, saved>>

\* lines 403-404: run() creates the pool and enters the loop
MP_run_start ==
    /\ pc \in {"idle", "ready"}
    /\ pc' = LoopHead(0)
    /\ UNCHANGED <<opt, twin, strategy, ctor, step, idx, num_track, tasks, saved, ghost>>

\* line 406: pool.map submits one task per swarm
Dispatch ==
    /\ pc = "dispatch"
    /\ tasks' = [i \in SwarmIds |-> [state |-> "pending", result |-> <<>>]]
    /\ pc' = "join"
    /\ UNCHANGED <<opt, twin, strategy, ctor, step, idx, num_track, saved, ghost>>

\* a worker runs self._next_step_and_evaluate(swarm) for the task of swarm i
Worker(i) ==
    /\ pc = "join"
    /\ tasks[i].state = "pending"
    /\ \E newx \in [Particles -> Positions] :
          tasks' = [tasks EXCEPT ![i] =
            [state |-> "done",
             result |-> next_step_and_evaluate(WorkerCopy(opt, opt.swarms[i]), 1, newx).swarms[1]]]
    /\ ghost' = [ghost EXCEPT !.stepped = @ \cup {i}]
    /\ UNCHANGED <<opt, twin, strategy, ctor, pc, step, idx, num_track, saved>>

\* a mutant of Join: the results are collected in the reverse order
Join_reversed ==
    /\ pc = "join"
    /\ \A i \in SwarmIds : tasks[i].state = "done"
    /\ opt' = [opt EXCEPT !.swarms = [i \in SwarmIds |-> tasks[NumSwarms + 1 - i].result]]
    /\ tasks' = <<>>
    /\ pc' = "best"
    /\ UNCHANGED <<twin, strategy, ctor, step, idx, num_track, saved, ghost>>

\* line 406: pool.map returns the results in the order of the swarms
Join ==
    /\ pc = "join"
    /\ \A i \in SwarmIds : tasks[i].state = "done"
    /\ opt' = [opt EXCEPT !.swarms = [i \in SwarmIds |-> tasks[i].result]]
    /\ tasks' = <<>>
    /\ pc' = "best"
    /\ UNCHANGED <<twin, strategy, ctor, step, idx, num_track, saved, ghost>>

\* lines 412-415, then the next iteration
Check ==
    /\ pc = "check"
    /\ IF EarlyStop(opt, num_track)
       THEN pc' = "done" /\ step' = step
       ELSE pc' = LoopHead(step + 1) /\ step' = step + 1
    /\ UNCHANGED <<opt, twin, strategy, ctor, idx, num_track, tasks, saved, ghost>>

\* --------------------------------------------------------- the specification
Next ==
    \/ Run_start
    \/ Init_eval
    \/ Update_history
    \/ Update_best
    \/ Advance
    \/ Save
    \/ Advance_all
    \/ Evaluate_query
    \/ Caller_evaluate
    \/ MP_run_start
    \/ Dispatch
    \/ \E i \in SwarmIds : Worker(i)
    \/ Join
    \/ Check

Spec == Init /\ [][Next]_vars

\* ------------------------------------------------- weighted fitness (C1)
\* two scoring functions with weights 1 and 3, the first on molecules, the
\* second on molecules or on embeddings, with every table of scaled scores
FitnessConfigs ==
    {<<ScoringFunction("f1", 1, TRUE, t1), ScoringFunction("f2", 3, TRUE, t2)>> :
        t1 \in [CanonMols -> 0 .. MaxScore], t2 \in [CanonMols -> 0 .. MaxScore]}
    \cup
    {<<ScoringFunction("f1", 1, TRUE, t1), ScoringFunction("f2", 3, FALSE, t2)>> :
        t1 \in [CanonMols -> 0 .. MaxScore], t2 \in [Positions -> 0 .. MaxScore]}

InitFitness == InitWith(FitnessConfigs, {"bat"}, {"from_query", "from_query_list"})

\* the initial evaluation of run(): update_fitness on every swarm
NextFitness == Run_start \/ Init_eval

SpecFitness == InitFitness /\ [][NextFitness]_vars

RECURSIVE SumOver(_, _, _)
\* the sum of val[k] for k in from .. Len(val)
SumOver(val, from, acc) ==
    IF from > Len(val) THEN acc ELSE SumOver(val, from + 1, acc + val[from])

\* the scaled score the swarm holds for particle p under each scoring function
StoredScaled(o, sw, p) ==
    [k \in DOMAIN o.scoring_functions |-> sw.scaled_scores[o.scoring_functions[k].name][p]]

Weights(o) == [k \in DOMAIN o.scoring_functions |-> o.scoring_functions[k].weight]

IsEvaluated(sw) == sw.fitness # <<>>

Entry(o, m) ==
    [unscaled |-> o.smi_to_unscaled_scores[m],
     scaled |-> o.smi_to_scaled_scores[m],
     desirability |-> o.smi_to_desirability_scores[m],
     residue |-> o.smi_to_residues[m]]

MolFuncs(o) ==
    {k \in DOMAIN o.scoring_functions : o.scoring_functions[k].is_mol_func}

\* C2: a cache entry, once written, is never changed by a later write: in a
\* run, the entry of every cached molecule is the first one written for it.
C2_FirstWriteWins ==
    strategy \in {"seq", "bat"} =>
        \A m \in DOMAIN opt.smi_to_unscaled_scores : Entry(opt, m) = opt.first_written[m]

\* C3: in a sequential or batched run each molecule-based scoring function is
\* given each canonical molecule at most once, over all update_fitness calls.
C3_ScoredAtMostOnce ==
    strategy \in {"seq", "bat"} =>
        \A f \in DOMAIN opt.calls : \A m \in CanonMols : opt.calls[f][m] <= 1

\* a seed molecule, scored in the initial evaluation by two molecule-based
\* functions, is held by particles of two swarms after the first step
C3_Witness ==
    /\ strategy = "seq"
    /\ pc = "hist"
    /\ step = 1
    /\ Cardinality(MolFuncs(opt)) = 2
    /\ \E m \in ghost.seeds :
          /\ \A i \in SwarmIds : m \in Range(opt.swarms[i].smiles)
          /\ \A f \in DOMAIN opt.calls : opt.calls[f][m] = 1

\* ------------------------------------------------ best-solutions table (C4, C5)
Sorted(rows) ==
    \A k \in 1 .. (Len(rows) - 1) : FitGe(rows[k].fitness, rows[k + 1].fitness)

NoDuplicates(rows) ==
    \A k, l \in DOMAIN rows : rows[k].smiles = rows[l].smiles => k = l

\* C4: after every _update_best_solutions(num_track) call the table has at
\* most num_track rows, no molecule twice, and non-increasing fitness.
C4_BestTableInvariant ==
    /\ Len(opt.best_solutions) <= num_track
    /\ NoDuplicates(opt.best_solutions)
    /\ Sorted(opt.best_solutions)

\* right after an update in the second step the table is full, its rows differ
\* in fitness, and a molecule of a particle that is no seed was cut off
C4_Witness ==
    /\ pc = "advance" /\ idx = 1 /\ step = 1
    /\ num_track = MaxTrack
    /\ Len(opt.best_solutions) = num_track
    /\ FitGt(opt.best_solutions[1].fitness, opt.best_solutions[num_track].fitness)
    /\ \E i \in SwarmIds : \E p \in Particles :
          /\ opt.swarms[i].smiles[p] \notin opt.init_smiles_set
          /\ \A k \in DOMAIN opt.best_solutions :
                opt.best_solutions[k].smiles # opt.swarms[i].smiles[p]

\* C5: for an optimizer built from seed molecules, no row of the table holds
\* a canonical seed molecule.
C5_NoSeedInBestTable ==
    ctor \in {"from_query", "from_query_multi", "from_query_list"} =>
        \A k \in DOMAIN opt.best_solutions : opt.best_solutions[k].smiles \notin ghost.seeds

\* ----------------------------------------------- initial evaluation (C7)
\* C7 as stated: in each of the three strategies every swarm's starting
\* position has been evaluated when the first next_step of any swarm happens.
C7_EvaluatedBeforeFirstStep ==
    ghost.stepped # {} => ghost.evaluated = SwarmIds

\* C7 (as amended): in the sequential and the batched run every swarm's
\* starting position has been evaluated when the first next_step of any swarm
\* happens; the process-parallel run() evaluates nothing before its first step.
C7_EvaluatedBeforeFirstStepSeqBat ==
    strategy \in {"seq", "bat"} => C7_EvaluatedBeforeFirstStep

\* a batched run has made its first step, all swarms evaluated before it
C7_Witness ==
    /\ strategy = "bat"
    /\ step = 1
    /\ ghost.stepped = SwarmIds
    /\ ghost.evaluated = SwarmIds

\* ---------------------------------------------------------- early stop (C8)
\* the process-parallel run tracks one solution, and after the table update
\* of a step before the last the retained solution has fitness 1.0
BestIsOne ==
    /\ strategy = "mp"
    /\ num_track = 1
    /\ pc \in {"hist", "check"}
    /\ step < num_steps - 1
    /\ Len(opt.best_solutions) = 1
    /\ FitEq(opt.best_solutions[1].fitness, One)

\* C8: from there the run only finishes the step's bookkeeping and returns:
\* no task is dispatched, nothing is raised, the swarms and the table stay.
C8_EarlyStop ==
    [][BestIsOne =>
        /\ pc' = IF pc = "hist" THEN "check" ELSE "done"
        /\ step' = step
        /\ tasks' = tasks
        /\ opt'.raised = "none"
        /\ opt'.swarms = opt.swarms
        /\ opt'.best_solutions = opt.best_solutions]_vars

\* the run has returned after its first step, with the one solution of fitness 1.0
C8_Witness ==
    /\ strategy = "mp"
    /\ pc = "done"
    /\ step = 0
    /\ step < num_steps - 1
    /\ num_track = 1
    /\ opt.raised = "none"
    /\ Len(opt.best_solutions) = 1
    /\ FitEq(opt.best_solutions[1].fitness, One)
    /\ Len(opt.best_fitness_history) = NumSwarms

\* ------------------------------------------------- best-fitness history (C9)
\* the steps of run() that are complete
CompletedSteps ==
    IF strategy = "mp" /\ pc = "done" /\ step < num_steps THEN step + 1 ELSE step

AtLoopHead == pc \in {"done"} \/ pc = LoopHead(step)

\* what one _update_best_fitness_history(step) call may do to the history
AppendsOneRowPerSwarm(h, hh) ==
    /\ Len(hh) = Len(h) + NumSwarms
    /\ SubSeq(hh, 1, Len(h)) = h
    /\ \A i \in SwarmIds :
          /\ hh[Len(h) + i].swarm = i - 1
          /\ hh[Len(h) + i].step = step

\* C9: the history only grows, by exactly one row per swarm (tagged with the
\* swarm's index and the step) in each _update_best_fitness_history call that
\* returns, and after K complete steps it has K * len(swarms) rows.
C9_HistoryAppendOnly ==
    /\ [][\/ opt'.best_fitness_history = opt.best_fitness_history
          \/ /\ pc = "hist"
             /\ AppendsOneRowPerSwarm(opt.best_fitness_history, opt'.best_fitness_history)]_vars
    /\ [](Len(opt.best_fitness_history) = ghost.hist_calls * NumSwarms)
    /\ [](AtLoopHead => Len(opt.best_fitness_history) = CompletedSteps * NumSwarms)

\* a sequential run has completed all its steps: two history calls, the
\* second of which appended to the rows of the first
C9_Witness ==
    /\ strategy = "seq"
    /\ pc = "done"
    /\ step = num_steps
    /\ ghost.hist_calls = num_steps
    /\ Len(opt.best_fitness_history) = num_steps * NumSwarms
    /\ opt.best_fitness_history[1].step = 0
    /\ opt.best_fitness_history[Len(opt.best_fitness_history)].step = num_steps - 1

\* ------------------------------------- batched against sequential (C6)
RECURSIVE AdvanceFrom(_, _, _)
\* lines 180-181: `for swarm in self.swarms: self._next_step_and_evaluate(swarm)`
\* from swarm i on, newx[i] the positions next_step draws for swarm i
AdvanceFrom(o, i, newx) ==
    IF i > Len(o.swarms) \/ o.raised # "none" THEN o
    ELSE AdvanceFrom(next_step_and_evaluate(o, i, newx[i]), i + 1, newx)

\* lines 174-175 and 357-358: the bookkeeping at the head of a step
Bookkeeping(o, s, n) ==
    LET o1 == update_best_fitness_history(o, s)
    IN  IF o1.raised # "none" THEN o1 ELSE update_best_solutions(o1, n)

\* one iteration of BasePSOptimizer.run's loop (lines 173-181)
Sequential_step(o, s, n, newx) ==
    LET o1 == Bookkeeping(o, s, n)
    IN  IF o1.raised # "none" THEN o1 ELSE AdvanceFrom(o1, 1, newx)

\* one iteration of ParallelSwarmOptimizer.run's loop (lines 356-361)
Batched_step(o, s, n, newx) ==
    LET o1 == Bookkeeping(o, s, n)
    IN  IF o1.raised # "none" THEN o1 ELSE Parallel_next_step_and_evaluate(o1, newx)

\* two instances in the same starting state: opt runs BasePSOptimizer.run,
\* twin runs ParallelSwarmOptimizer.run, and next_step draws the same
\* positions in both
InitEquiv ==
    /\ strategy = "both"
    /\ ctor \in {"from_query_list", "from_swarm_dicts"}
    /\ \E cfg \in Configs : opt \in Instances(ctor, cfg)
    /\ twin = opt
    /\ pc = "start"
    /\ step = 0
    /\ idx = 1
    /\ num_track \in 1 .. MaxTrack
    /\ tasks = <<>>
    /\ saved = NothingSaved(FALSE)
    /\ ghost = Ghost0(opt)

\* the initial evaluation of both runs
Both_init_eval ==
    /\ pc = "start"
    /\ opt' = EvaluateFrom(opt, 1)
    /\ twin' = EvaluateFrom(twin, 1)
    /\ pc' = IF opt'.raised # "none" \/ twin'.raised # "none" THEN "raised" ELSE "loop"
    /\ UNCHANGED <<strategy, ctor, step, idx, num_track, tasks, saved, ghost>>

\* one step of both runs
Both_step ==
    /\ pc = "loop"
    /\ step < num_steps
    /\ \E newx \in [SwarmIds -> [Particles -> Positions]] :
          /\ opt' = Sequential_step(opt, step, num_track, newx)
          /\ twin' = Batched_step(twin, step, num_track, newx)
    /\ step' = step + 1
    /\ pc' = IF opt'.raised # "none" \/ twin'.raised # "none" THEN "raised" ELSE "loop"
    /\ UNCHANGED <<strategy, ctor, idx, num_track, tasks, saved, ghost>>

NextEquiv == Both_init_eval \/ Both_step

SpecEquiv == InitEquiv /\ [][NextEquiv]_vars

\* C6: from the same starting state, with the same draws and the same
\* num_track, the batched and the sequential run have the same best-solutions
\* table after N steps, for every N.
C6_SameBestTable ==
    /\ opt.best_solutions = twin.best_solutions
    /\ opt.raised = twin.raised

\* both runs have made all their steps, hold a table with a row, and their
\* swarms, which differ from one another, ended in the same state
C6_Witness ==
    /\ pc = "loop"
    /\ step = num_steps
    /\ opt.best_solutions # <<>>
    /\ opt.swarms = twin.swarms
    /\ opt.swarms[1].smiles # opt.swarms[2].smiles
    /\ opt.swarms[1].smiles[1] # opt.swarms[1].smiles[2]

\* -------------------------------------------- zero sum of weights (C10)
Z1 == ScoringFunction("z1", 0, TRUE, [m \in CanonMols |-> IF m = <<"C">> THEN 0 ELSE 1])

ZG == ScoringFunction("zg", 0, FALSE, [x \in Positions |-> x % 2])

\* scoring_functions lists whose weights sum to zero
BadConfigs == {<<>>, <<Z1>>, <<Z1, ZG>>}

InitBad == InitWith(BadConfigs, {"seq", "bat"}, AllCtors)

\* the start of run() and its initial evaluation
NextBad == Run_start \/ Init_eval

SpecBadCfg == InitBad /\ [][NextBad]_vars

\* the swarms are as the constructor made them
AsConstructed ==
    opt.swarms \in {inst.swarms : inst \in Instances(ctor, opt.scoring_functions)}

\* C10: with a zero sum of weights no scoring function is invoked, no cache
\* entry is written and no swarm is modified: the configuration is rejected
\* before any of this.
C10_RejectedBeforeWork ==
    SumOver(Weights(opt), 1, 0) = 0 =>
        /\ \A f \in DOMAIN opt.calls : \A m \in CanonMols : opt.calls[f][m] = 0
        /\ DOMAIN opt.smi_to_unscaled_scores = {}
        /\ AsConstructed

\* ------------------------------------------------ reads of the cache (C11, C12)
\* the molecules _update_best_solutions looks up at line 128
ParticleMolecules(o) ==
    {o.swarms[i].smiles[p] : i \in DOMAIN o.swarms, p \in Particles}

\* the molecules _update_best_fitness_history looks up at line 152
BestMolecules(o) == {o.swarms[i].best_smiles : i \in DOMAIN o.swarms}

\* C11: in a sequential or batched run with a non-empty scoring configuration
\* the bookkeeping reads the cache only under recorded keys: at the call of
\* _update_best_fitness_history every swarm's best molecule, and at the call of
\* _update_best_solutions every particle's molecule, has a cache entry.
C11_ReadsAreRecorded ==
    (strategy \in {"seq", "bat"} /\ opt.scoring_functions # <<>>) =>
        /\ pc = "hist" => BestMolecules(opt) \subseteq DOMAIN opt.smi_to_residues
        /\ pc = "best" => ParticleMolecules(opt) \subseteq DOMAIN opt.smi_to_residues

\* C12: in the process-parallel run, after the barrier of a step the
\* orchestrator's own cache has an entry for every molecule the returned
\* swarms hold, and the step's bookkeeping reads no unrecorded molecule (with
\* a molecule-based scoring function in the configuration).
C12_OrchestratorCacheCovers ==
    (strategy = "mp" /\ MolFuncs(opt) # {}) =>
        /\ pc = "best" => ParticleMolecules(opt) \subseteq DOMAIN opt.smi_to_residues
        /\ opt.raised # "KeyError"

\* ------------------------------------------- per-objective score maps (C13)
\* the values swarm sw holds for particle p under the name of function sf
StoredFor(sw, sf, p) ==
    [unscaled |-> sw.unscaled_scores[sf.name][p],
     scaled |-> sw.scaled_scores[sf.name][p],
     desirability |-> sw.desirability_scores[sf.name][p]]

\* what function sf itself returns for molecule m
OwnScore(sf, m) ==
    [unscaled |-> Call(sf, m).unscaled,
     scaled |-> Call(sf, m).scaled,
     desirability |-> Call(sf, m).desirability]

\* C13: after every update_fitness call (of a sequential or batched run), for
\* each molecule-based function f and each particle p, the unscaled, scaled and
\* desirability values the swarm stores under f's name are f's own scores of
\* p's canonical molecule.
C13_StoredScoresAreOwnScores ==
    strategy \in {"seq", "bat"} =>
        \A i \in DOMAIN opt.swarms :
            IsEvaluated(opt.swarms[i]) =>
                \A k \in MolFuncs(opt) : \A p \in Particles :
                    StoredFor(opt.swarms[i], opt.scoring_functions[k], p) =
                        OwnScore(opt.scoring_functions[k],
                                 canonicalize_smiles(opt.swarms[i].smiles[p]))

\* ------------------------------------------ the final population (C14)
\* molecule m with fitness f is in the table, or n rows of at least its
\* fitness are
RetainedOrOutranked(rows, n, m, f) ==
    \/ \E k \in DOMAIN rows : rows[k].smiles = m
    \/ /\ Len(rows) >= n
       /\ \A k \in 1 .. n : FitGe(rows[k].fitness, f)

\* C14: when a sequential or batched run of at least one step returns, every
\* molecule of the population the swarms hold (the one the final step
\* produced and evaluated) that is no seed, and not in init_smiles_set, is in
\* the returned best-solutions table or is outranked by num_track retained
\* rows of at least its fitness.
C14_FinalPopulationFolded ==
    (strategy \in {"seq", "bat"} /\ pc = "done" /\ step >= 1) =>
        \A i \in DOMAIN opt.swarms : \A p \in Particles :
            opt.swarms[i].smiles[p] \notin (ghost.seeds \cup opt.init_smiles_set) =>
                RetainedOrOutranked(opt.best_solutions, num_track,
                                    opt.swarms[i].smiles[p], opt.swarms[i].fitness[p])

\* ------------------------------------- a scoring function that raises (C15)
\* F2, raising when its batch holds the molecule N
R2 == RaisingFunction("f2", 3, TRUE, [m \in CanonMols |-> 1], {<<"N">>})

\* F1, raising when its batch holds the molecule C
R1 == RaisingFunction("f1", 1, TRUE, [m \in CanonMols |-> 1], {<<"C">>})

\* G, raising when its batch holds position 0
RG == RaisingFunction("g", 1, FALSE, [x \in Positions |-> x % 2], {0})

RaiseConfigs == {<<F1, R2>>, <<R1, F2>>, <<F1, RG>>}

\* twin is the optimizer as it was when the last update_fitness call began
InitRaise == InitWith(RaiseConfigs, {"seq"}, {"from_query", "from_query_list", "from_swarm_dicts"})

\* lines 168-169, one iteration, remembering the state before the call
Try_init_eval ==
    /\ pc = "init_eval"
    /\ twin' = opt
    /\ opt' = update_fitness(opt, idx)
    /\ pc' = After(opt', IF idx = NumSwarms THEN LoopHead(0) ELSE "init_eval")
    /\ idx' = IF idx = NumSwarms THEN 1 ELSE idx + 1
    /\ UNCHANGED <<strategy, ctor, step, num_track, tasks, saved, ghost>>

\* lines 180-181, one iteration, remembering the state at line 115, before
\* update_fitness is called
Try_advance ==
    /\ pc = "advance"
    /\ \E newx \in [Particles -> Positions] :
          /\ twin' = next_step_and_decode(opt, idx, newx)
          /\ opt' = update_fitness(twin', idx)
    /\ pc' = After(opt', IF idx = NumSwarms THEN "save" ELSE "advance")
    /\ idx' = IF idx = NumSwarms THEN 1 ELSE idx + 1
    /\ UNCHANGED <<strategy, ctor, step, num_track, tasks, saved, ghost>>

NextRaise ==
    \/ Run_start
    \/ Try_init_eval
    \/ Update_history
    \/ Update_best
    \/ Try_advance
    \/ Save

SpecRaise == InitRaise /\ [][NextRaise]_vars

\* the score cache of optimizer o
Cache(o) ==
    [unscaled |-> o.smi_to_unscaled_scores,
     scaled |-> o.smi_to_scaled_scores,
     desirability |-> o.smi_to_desirability_scores,
     residues |-> o.smi_to_residues]

\* the per-objective score maps and the fitness of swarm sw
Scores(sw) ==
    [unscaled |-> sw.unscaled_scores,
     scaled |-> sw.scaled_scores,
     desirability |-> sw.desirability_scores,
     fitness |-> sw.fitness,
     swarm_best_fitness |-> sw.swarm_best_fitness]

\* C15: when a scoring function raises during update_fitness, the exception
\* leaves the step, no fitness is assigned, and the score cache and the
\* swarms' per-objective score maps are as they were when the call began.
C15_AllOrNothing ==
    opt.raised = "ScoringError" =>
        /\ pc = "raised"
        /\ Cache(opt) = Cache(twin)
        /\ \A i \in DOMAIN opt.swarms : Scores(opt.swarms[i]) = Scores(twin.swarms[i])

\* ------------------------------------------- the order within a step (C16)
\* twin[i]: the positions of swarm i right after its last next_step (line 111,
\* 336 or 430), before they are decoded; its current ones before its first
Drawn(i, newx) ==
    [(IF twin = <<>> THEN [j \in SwarmIds |-> opt.swarms[j].x] ELSE twin) EXCEPT ![i] = newx]

InitStep ==
    InitWith({<<F1, G>>, <<F1, F2>>, <<G>>}, {"seq", "bat", "mp"}, {"from_query_list", "init"})

\* Advance, keeping the positions next_step drew
Step_seq ==
    /\ pc = "advance"
    /\ strategy = "seq"
    /\ \E newx \in [Particles -> Positions] :
          /\ opt' = next_step_and_evaluate(opt, idx, newx)
          /\ twin' = Drawn(idx, Swarm_next_step(opt.swarms[idx], newx).x)
    /\ pc' = After(opt', IF idx = NumSwarms THEN "save" ELSE "advance")
    /\ idx' = IF idx = NumSwarms THEN 1 ELSE idx + 1
    /\ ghost' = [ghost EXCEPT !.stepped = @ \cup {idx}]
    /\ UNCHANGED <<strategy, ctor, step, num_track, tasks, saved>>

\* Advance_all, keeping the positions next_step drew
Step_bat ==
    /\ pc = "advance"
    /\ strategy = "bat"
    /\ \E newx \in [SwarmIds -> [Particles -> Positions]] :
          /\ opt' = Parallel_next_step_and_evaluate(opt, newx)
          /\ twin' = [i \in SwarmIds |-> Swarm_next_step(opt.swarms[i], newx[i]).x]
    /\ step' = step + 1
    /\ pc' = After(opt', LoopHead(step + 1))
    /\ ghost' = [ghost EXCEPT !.stepped = SwarmIds]
    /\ UNCHANGED <<strategy, ctor, idx, num_track, tasks, saved>>

\* Worker(i), keeping the positions next_step drew
Step_worker(i) ==
    /\ pc = "join"
    /\ tasks[i].state = "pending"
    /\ \E newx \in [Particles -> Positions] :
          /\ tasks' = [tasks EXCEPT ![i] =
                [state |-> "done",
                 result |-> next_step_and_evaluate(WorkerCopy(opt, opt.swarms[i]), 1, newx).swarms[1]]]
          /\ twin' = Drawn(i, Swarm_next_step(opt.swarms[i], newx).x)
    /\ ghost' = [ghost EXCEPT !.stepped = @ \cup {i}]
    /\ UNCHANGED <<opt, strategy, ctor, pc, step, idx, num_track, saved>>

NextStep ==
    \/ Run_start
    \/ Init_eval
    \/ Update_history
    \/ Update_best
    \/ Step_seq
    \/ Save
    \/ Step_bat
    \/ Evaluate_query
    \/ Caller_evaluate
    \/ MP_run_start
    \/ Dispatch
    \/ \E i \in SwarmIds : Step_worker(i)
    \/ Join
    \/ Check

SpecStep == InitStep /\ [][NextStep]_vars

\* the indices of the embedding-based scoring functions
EmbFuncs(o) == DOMAIN o.scoring_functions \ MolFuncs(o)

\* C16: after a step of a swarm, in each strategy, every particle's position
\* is the embedding of the string decoded from its position after next_step,
\* its molecule is that string (canonical), the scores stored for it are
\* scores of that molecule and of that re-encoded position, and its fitness
\* is computed from them.
C16_DecodeEncodeScore ==
    (pc # "join" /\ opt.raised = "none") =>
        \A i \in ghost.stepped : \A p \in Particles :
            LET decoded == emb_to_seq(twin[i][p])
                sw == opt.swarms[i]
            IN  /\ sw.x[p] = seq_to_emb(decoded)
                /\ sw.smiles[p] = canonicalize_smiles(decoded)
                /\ \A k \in EmbFuncs(opt) :
                      StoredFor(sw, opt.scoring_functions[k], p) =
                          OwnScore(opt.scoring_functions[k], seq_to_emb(decoded))
                /\ \A k \in MolFuncs(opt) :
                      \E l \in MolFuncs(opt) :
                          StoredFor(sw, opt.scoring_functions[k], p) =
                              [unscaled |-> Call(opt.scoring_functions[l], sw.smiles[p]).unscaled,
                               scaled |-> Call(opt.scoring_functions[l], sw.smiles[p]).scaled,
                               desirability |->
                                   Call(opt.scoring_functions[l], sw.smiles[p]).desirability]
                /\ sw.fitness[p] = <<SumOver(StoredScaled(opt, sw, p), 1, 0),
                                     SumOver(Weights(opt), 1, 0)>>

\* the workers of a process-parallel step have returned; a particle that
\* next_step put at position 2 was decoded to OC, is held as the molecule CO
\* at the re-encoded position 1, and was scored there by an embedding function
C16_Witness ==
    /\ strategy = "mp"
    /\ pc = "best"
    /\ EmbFuncs(opt) # {}
    /\ \E i \in ghost.stepped : \E p \in Particles :
          /\ twin[i][p] = 2
          /\ opt.swarms[i].x[p] = 1
          /\ opt.swarms[i].smiles[p] = <<"C", "O">>

\* ------------------------------------------- the barrier of a step (C17)
\* a step of the process-parallel run is waiting for its tasks
Joining == strategy = "mp" /\ pc = "join"

\* leaving the wait: every task is done, and the swarm list is the list of
\* the results, the result of swarm i's task at index i
BarrierStep ==
    (Joining /\ pc' # "join") =>
        /\ \A i \in SwarmIds : tasks[i].state = "done"
        /\ DOMAIN opt'.swarms = DOMAIN opt.swarms
        /\ \A i \in SwarmIds : opt'.swarms[i] = tasks[i].result

\* a task is run on the swarm at its own index
TaskStep ==
    \A i \in SwarmIds :
        (Joining /\ tasks[i].state = "pending" /\ tasks'[i].state = "done") =>
            \E newx \in [Particles -> Positions] :
                tasks'[i].result =
                    next_step_and_evaluate(WorkerCopy(opt, opt.swarms[i]), 1, newx).swarms[1]

\* C17: in the process-parallel run a step dispatches exactly one task per
\* swarm; the bookkeeping and the next dispatch happen only when no task of
\* the step is outstanding; the swarm list after the step has the same length
\* and the result of swarm i's task at index i.
C17_FullBarrier ==
    /\ [](Joining => DOMAIN tasks = SwarmIds)
    /\ []((strategy = "mp" /\ pc \in {"best", "hist", "check", "dispatch"}) => tasks = <<>>)
    /\ [][BarrierStep /\ TaskStep]_vars

\* the second step's tasks have all returned, with different results for the
\* two swarms
C17_Witness ==
    /\ strategy = "mp"
    /\ pc = "best"
    /\ step = 1
    /\ opt.swarms[1] # opt.swarms[2]
    /\ opt.swarms[1].fitness # <<>>

\* --------------------------------------- the empty best-solutions table (C18)
\* C18: in a sequential or batched run started from seeds, the first
\* _update_best_solutions call, made while every particle is at a seed
\* molecule, leaves the table empty and returns nan for max, min and mean, and
\* the loop goes on to advance the swarms.
C18_EmptyTableAtSeeds ==
    (/\ strategy \in {"seq", "bat"}
     /\ ctor \in {"from_query", "from_query_multi", "from_query_list"}
     /\ MolFuncs(opt) # {}
     /\ ParticleMolecules(opt) \subseteq ghost.seeds
     /\ ghost.stepped = {}
     /\ pc \in {"best", "advance"}) =>
        /\ opt.raised = "none"
        /\ opt.best_solutions = <<>>
        /\ pc = "advance" =>
              /\ IsNaN(ghost.stats.max)
              /\ IsNaN(ghost.stats.min)
              /\ IsNaN(ghost.stats.mean)

\* ------------------------------- MPPSOOptimizerManualScoring (lines 419-440)
\* lines 420-421: no scoring functions are passed on
MPPSOOptimizerManualScoring(swarms) == MPPSOOptimizer(swarms, <<>>)

\* lines 423-434, on one swarm: the supplied fitness is applied, then the swarm
\* moves, is decoded and encoded again
Manual_next_step_and_evaluate(sw, fitness, newx) ==
    LET sw0 == Swarm_update_fitness(sw, fitness)
        sw1 == Swarm_next_step(sw0, newx)
        smiles == [p \in DOMAIN sw1.x |-> emb_to_seq(sw1.x[p])]
    IN  [sw1 EXCEPT !.smiles = smiles,
                    !.x = [p \in DOMAIN smiles |-> seq_to_emb(smiles[p])]]

\* zip(self.swarms, fitness): as many pairs as the shorter of the two has
Zip(swarms, fitness) ==
    [i \in 1 .. Min2(Len(swarms), Len(fitness)) |-> <<swarms[i], fitness[i]>>]

\* the fitness of the particles of one swarm, as the caller supplies it
FitnessVectors == [Particles -> {<<0, 1>>, <<1, 1>>}]

\* the fitness lists a caller passes: one entry per swarm, one entry short, or
\* one entry more
FitnessLists ==
    UNION {[1 .. n -> FitnessVectors] : n \in {NumSwarms - 1, NumSwarms}}
    \cup {Append(f, [p \in Particles |-> <<0, 1>>]) : f \in [SwarmIds -> FitnessVectors]}

\* twin is the fitness list of the last run_one_iteration call
InitManual ==
    /\ strategy = "manual"
    /\ ctor = "init"
    /\ \E seeds \in [SwarmIds -> SeedStrings] :
          opt = MPPSOOptimizerManualScoring([i \in SwarmIds |-> SwarmAt(seeds[i])])
    /\ twin = <<>>
    /\ pc = "idle"
    /\ step = 0
    /\ idx = 1
    /\ num_track = 1
    /\ tasks = <<>>
    /\ saved = NothingSaved(FALSE)
    /\ ghost = Ghost0(opt)

\* lines 436-440: run_one_iteration(fitness); pool.starmap returns one result
\* per pair of the zip, in order
Run_one_iteration ==
    /\ strategy = "manual"
    /\ step < MaxIterations
    /\ \E fitness \in FitnessLists :
          /\ twin' = fitness
          /\ \E newx \in [SwarmIds -> [Particles -> Positions]] :
                opt' = [opt EXCEPT !.swarms =
                    [i \in DOMAIN Zip(opt.swarms, fitness) |->
                        Manual_next_step_and_evaluate(Zip(opt.swarms, fitness)[i][1],
                                                      Zip(opt.swarms, fitness)[i][2],
                                                      newx[i])]]
    /\ step' = step + 1
    /\ pc' = "returned"
    /\ UNCHANGED <<strategy, ctor, idx, num_track, tasks, saved, ghost>>

NextManual == Run_one_iteration

SpecManual == InitManual /\ [][NextManual]_vars

\* C19: run_one_iteration(fitness) returns a swarm list of the length and order
\* it had before the call, swarm i carrying fitness[i], and no scoring function
\* was invoked, for every fitness list, also one of another length than the
\* swarm list.
C19_ManualIteration ==
    pc = "returned" =>
        /\ Len(opt.swarms) = NumSwarms
        /\ \A i \in DOMAIN opt.swarms : opt.swarms[i].fitness = twin[i]
        /\ \A f \in DOMAIN opt.calls : \A m \in CanonMols : opt.calls[f][m] = 0

\* ------------------------------------ the artifacts and a crash (C20)
\* lines 184-194, in the order they are written: best_solutions.csv,
\* best_fitness_history.csv, smi_to_unscaled_scores.json
Files == <<"best_solutions", "best_fitness_history", "smi_to_unscaled_scores">>

\* the contents of the three files, and which of them is incomplete
Stored(files) ==
    [best_solutions |-> files.best_solutions,
     best_fitness_history |-> files.best_fitness_history,
     smi_to_unscaled_scores |-> files.smi_to_unscaled_scores,
     open |-> files.open]

\* what the file named f is written from
InMemory(o, f) ==
    CASE f = "best_solutions" -> o.best_solutions
      [] f = "best_fitness_history" -> o.best_fitness_history
      [] OTHER -> o.smi_to_unscaled_scores

\* the artifacts as the last completed step left them
LastCompleted == IF twin = <<>> THEN Stored(NothingSaved(FALSE)) ELSE twin

InitCrash == InitWith({<<F1>>, <<F1, G>>}, {"seq"}, {"from_query_list", "from_swarm_dicts"})

\* to_csv(path) / open(path, "w"): file idx of the step is opened for writing,
\* which truncates it
Open_file ==
    /\ pc = "save"
    /\ saved.open = {}
    /\ saved' = [saved EXCEPT !.open = {Files[idx]}, ![Files[idx]] = <<>>]
    /\ UNCHANGED <<opt, twin, strategy, ctor, pc, step, idx, num_track, tasks, ghost>>

\* the open file is written and closed; after the last file the step is over
Write_file ==
    /\ pc = "save"
    /\ saved.open # {}
    /\ saved' = [saved EXCEPT !.open = {}, ![Files[idx]] = InMemory(opt, Files[idx]),
                              !.writes = IF idx = Len(Files) THEN @ + 1 ELSE @]
    /\ IF idx = Len(Files)
       THEN /\ idx' = 1
            /\ step' = step + 1
            /\ pc' = LoopHead(step + 1)
            /\ twin' = Stored(saved')
       ELSE /\ idx' = idx + 1
            /\ UNCHANGED <<step, pc, twin>>
    /\ UNCHANGED <<opt, strategy, ctor, num_track, tasks, ghost>>

\* the process dies inside an iteration of the loop
Crash ==
    /\ pc \in {"hist", "best", "advance", "save"}
    /\ pc' = "crashed"
    /\ UNCHANGED <<opt, twin, strategy, ctor, step, idx, num_track, tasks, saved, ghost>>

NextCrash ==
    \/ Run_start
    \/ Init_eval
    \/ Update_history
    \/ Update_best
    \/ Advance
    \/ Open_file
    \/ Write_file
    \/ Crash

SpecCrash == InitCrash /\ [][NextCrash]_vars

\* C20: a crash at any point inside step k >= 1 of the sequential run leaves in
\* storage the complete artifacts (best-solutions table, history, score
\* cache) written at the end of step k-1.
C20_CrashLeavesPreviousStep ==
    (pc = "crashed" /\ step >= 1) => Stored(saved) = LastCompleted

\* ------------------------------- the table from update to update (C21)
\* a molecule-based function with three different scores
F3 == ScoringFunction("f3", 1, TRUE,
        [m \in CanonMols |-> CASE m = <<"C">> -> 1 [] m = <<"C", "O">> -> 2 [] OTHER -> 0])

InitTable ==
    InitWith({<<F3>>, <<F1>>, <<F1, F2>>}, {"seq"}, {"from_swarm_dicts", "from_query_list"})

\* Update_best, keeping in twin the table as it was before the call
Update_best_from ==
    /\ pc = "best"
    /\ twin' = opt.best_solutions
    /\ opt' = update_best_solutions(opt, num_track)
    /\ pc' = After(opt', "advance")
    /\ ghost' = [ghost EXCEPT !.stats =
                    IF opt'.raised = "none" THEN Stats(opt'.best_solutions) ELSE @]
    /\ saved' = IF opt'.raised = "none"
                THEN [saved EXCEPT !.epoch_stats =
                        Append(@, [step |-> step, stats |-> Stats(opt'.best_solutions)])]
                ELSE saved
    /\ UNCHANGED <<strategy, ctor, step, idx, num_track, tasks>>

NextTable ==
    \/ Run_start
    \/ Init_eval
    \/ Update_history
    \/ Update_best_from
    \/ Advance
    \/ Save

SpecTable == InitTable /\ [][NextTable]_vars

\* the molecules of the rows of a table
Molecules(rows) == {rows[k].smiles : k \in DOMAIN rows}

\* table new is no worse than table old, both kept to n rows
NoWorse(old, new, n) ==
    /\ old # <<>> => (new # <<>> /\ FitGe(new[1].fitness, old[1].fitness))
    /\ Len(old) = n => (Len(new) = n /\ FitGe(new[n].fitness, old[n].fitness))
    /\ \A k \in DOMAIN old :
          old[k].smiles \notin Molecules(new) =>
              /\ Len(new) >= n
              /\ \A j \in 1 .. n : FitGe(new[j].fitness, old[k].fitness)

\* C21: from one _update_best_solutions call to the next, with the same
\* num_track, the maximum fitness of the table does not decrease, the minimum
\* of a full table does not decrease, and a molecule leaves the table only
\* when num_track rows of at least its fitness are retained.
C21_TableNeverWorse == NoWorse(twin, opt.best_solutions, num_track)

\* the second update of a run: the table was full, a molecule has left it,
\* and the fitness of its last row has risen
C21_Witness ==
    /\ pc = "advance" /\ idx = 1 /\ step = 1
    /\ Len(twin) = num_track
    /\ \E k \in DOMAIN twin : twin[k].smiles \notin Molecules(opt.best_solutions)
    /\ FitGt(opt.best_solutions[num_track].fitness, twin[num_track].fitness)

\* ------------------------------------- stopping before num_steps (C22)
\* the process-parallel run has returned before its last step was counted:
\* the loop was left by a break
StoppedEarly == strategy = "mp" /\ pc = "done" /\ step < num_steps

\* C22: the process-parallel run returns before num_steps only when it tracks
\* one solution and that solution's fitness is 1.0; with num_track > 1 it
\* makes all num_steps steps.
C22_StopsOnlyOnSingleBest ==
    StoppedEarly =>
        /\ num_track = 1
        /\ Len(opt.best_solutions) = 1
        /\ FitEq(opt.best_solutions[1].fitness, One)

====
